---- MODULE Spec2Model ----
(***************************************************************************)
(* A model of two parts of LuminanceHDR:                                   *)
(*                                                                         *)
(*  - Pattanaik00Thread (src/src/Threads/pattanaik00Thread.cpp): the Qt    *)
(*    thread that wraps the pattanaik00 tone-mapping operator.  Several    *)
(*    instances run concurrently with each other and with the thread that  *)
(*    calls terminateRequested().                                          *)
(*                                                                         *)
(*  - the display adaptive TMO interface                                   *)
(*    (src/src/TonemappingOperators/mantiuk08/display_adaptive_tmo.h):     *)
(*    datmoToneCurve, datmo_compute_conditional_density and                *)
(*    datmo_compute_tone_curve.                                            *)
(***************************************************************************)
EXTENDS Integers, Sequences, FiniteSets, TLC

(***************************************************************************)
(* Bounds of the model.                                                    *)
(***************************************************************************)
\* Number of Pattanaik00Thread objects the host may construct.
NumInst == 2
\* Progress values the operator may post during one run.
MaxPosts == 1
\* Knots of a tone curve (and luminance bins of a conditional density).
NumKnots == 3
\* Pixels of the largest luminance map.
MaxPixels == 3
\* Scales of the multi-resolution decomposition.
NumScales == 2
\* Calls of datmo_compute_tone_curve the tuning caller makes on one density.
MaxCalls == 2
\* Frames of the longest sequence passed through the temporal filter.
MaxFrames == 28
\* Changes of the tone curve from one frame to the next within a sequence.
MaxCuts == 2

(***************************************************************************)
(* Program constants.                                                      *)
(***************************************************************************)
\* emit setMaximumSteps(100)
MaximumSteps == 100
\* opts.pregamma is compared with 1.0f; gamma values are kept in tenths.
NoPreGamma == 10

Inst == 1..NumInst

\* pregamma values (tenths): 1.0 and 2.2
PreGammas == {NoPreGamma, 22}
\* Width of the frame the caller passes, and a smaller width to resize to.
OrigWidth == 4
SmallWidth == 2
Widths == {OrigWidth, SmallWidth}
\* tonemapping_options, restricted to the fields run() reads itself.
Options == [pregamma : PreGammas, xsize : Widths]

\* Messages a pfs::Exception thrown by the operator may carry.
PfsMessages == {"pfs: missing X, Y, Z channels"}
UnknownFailure == "Failed to tonemap image"

\* Progress values the operator posts through the ProgressHelper.
ProgressValues == {50}

(***************************************************************************)
(* pfs frames.  A frame is an address in the heap; its contents are the    *)
(* sequence of operations that produced the pixel data from the caller's   *)
(* RGB data.                                                               *)
(***************************************************************************)
NULL == 0
CallerFrame == 1
\* pfscopy and resizeFrame return freshly allocated frames: addresses that
\* no other live frame has.
CopyAddr(i) == 2 * i
ResizedAddr(i) == 2 * i + 1
FrameIds == 1..(2 * NumInst + 1)

Unallocated == [state |-> "unalloc", data |-> <<>>, frees |-> 0]

VARIABLES
  heap,           \* FrameIds -> frame: state, data, number of frees
  counter,        \* static int Pattanaik00Thread::counter
  object,         \* per instance: "none", "live" or "destroyed"
  pc,             \* per instance: where its run() is
  opts,           \* per instance: const tonemapping_options opts
  originalxsize,  \* per instance: int originalxsize
  workingframe,   \* per instance: pfs::Frame *workingframe
  term,           \* per instance: the termination flag of *ph
  connected,      \* per instance: ph.valueChanged connected to setValue
  res,            \* per instance: the QImage local of run()
  raised,         \* per instance: the exception raised inside run(), if any
  emitted,        \* per instance: the signals emitted so far, in order
  requested,      \* per instance: when terminateRequested() was first
                  \* called, relative to run() (history)
  L,              \* datmo: the input luminance map (const float *L)
  df,             \* datmo: the display function (DisplayFunction *df)
  enh_factor,     \* datmo: contrast enhancement factor
  white_y,        \* datmo: luminance factor anchored to white, or -1
  canceled,       \* datmo: the termination flag of pfs::Progress &ph
  cd_pc,          \* datmo_compute_conditional_density: where it is
  cd_work,        \* the density under construction (local)
  cond_dens,      \* the pointer datmo_compute_conditional_density returned
  tc_pc,          \* datmo_compute_tone_curve: where it is
  slopes,         \* the solver's slopes, one per segment (local)
  tc,             \* the caller's datmoToneCurve
  tc_ret,         \* the value datmo_compute_tone_curve returned
  t_calls,        \* tuning caller: calls of datmo_compute_tone_curve made
  t_enh,          \* tuning caller: enh_factor of its current call
  t_white,        \* tuning caller: white_y of its current call
  t_pc,           \* tuning caller: where its current call is
  t_slopes,       \* tuning caller: the solver's slopes of its call (local)
  t_tc,           \* tuning caller: the datmoToneCurve of its current call
  t_ret,          \* tuning caller: the value its current call returned
  tf_window,      \* temporal filter: the tone curves kept, newest first
  tf_n,           \* temporal filter: frame index, the calls of smooth()
  tf_out,         \* temporal filter: what the last smooth() returned
  tf_hist,        \* every tone curve passed to smooth(), oldest first
                  \* (history)
  tf_cuts         \* changes of the tone curve in the sequence so far

tvars == <<heap, counter, object, pc, opts, originalxsize, workingframe, term,
           connected, res, raised, emitted, requested>>

\* A second caller that tunes the parameters on the same density.
svars == <<t_calls, t_enh, t_white, t_pc, t_slopes, t_tc, t_ret>>

\* The temporal filter of the tone curves of a sequence.
fvars == <<tf_window, tf_n, tf_out, tf_hist, tf_cuts>>

dvars == <<L, df, enh_factor, white_y, canceled, cd_pc, cd_work, cond_dens,
           tc_pc, slopes, tc, tc_ret, svars, fvars>>

vars == <<tvars, dvars>>

NoOptions == [pregamma |-> NoPreGamma, xsize |-> OrigWidth]
NoException == [stage |-> "none", type |-> "none", msg |-> ""]

TInit ==
  /\ heap = [f \in FrameIds |->
               IF f = CallerFrame
                 THEN [state |-> "live", data |-> <<"RGB">>, frees |-> 0]
                 ELSE Unallocated]
  /\ counter = 0
  /\ object = [i \in Inst |-> "none"]
  /\ pc = [i \in Inst |-> "idle"]
  /\ opts = [i \in Inst |-> NoOptions]
  /\ originalxsize = [i \in Inst |-> OrigWidth]
  /\ workingframe = [i \in Inst |-> NULL]
  /\ term = [i \in Inst |-> FALSE]
  /\ connected = [i \in Inst |-> FALSE]
  /\ res = [i \in Inst |-> <<>>]
  /\ raised = [i \in Inst |-> NoException]
  /\ emitted = [i \in Inst |-> <<>>]
  /\ requested = [i \in Inst |-> "never"]

(***************************************************************************)
(* Frame helpers.                                                          *)
(***************************************************************************)
\* An operation that rewrites the pixels of frame f in place.
ApplyOn(h, f, op) ==
  [h EXCEPT ![f].data = Append(@, op)]

\* A copy that is no copy: the working frame is the caller's frame itself.
AliasCopy(h, i, frame) ==
  [ptr |-> frame, heap |-> h]

\* workingframe = pfscopy(frame): a new frame with the same contents.
PfsCopy(h, i, frame) ==
  [ptr |-> CopyAddr(i),
   heap |-> [h EXCEPT ![CopyAddr(i)] =
               [state |-> "live", data |-> h[frame].data, frees |-> 0]]]

\* resizeFrame(in, xSize): a new frame holding the resampled pixels; the
\* input frame is left as it is.
ResizeFrame(h, i, from) ==
  [ptr |-> ResizedAddr(i),
   heap |-> [h EXCEPT ![ResizedAddr(i)] =
               [state |-> "live", data |-> Append(h[from].data, "resize"),
                frees |-> 0]]]

\* pfsio.freeFrame(f)
FreeFrame(h, f) ==
  [h EXCEPT ![f].state = "freed", ![f].frees = @ + 1]

\* emit sig, on instance i
Emit(i, sig) == emitted' = [emitted EXCEPT ![i] = Append(@, sig)]

\* The signals of one name that instance i has emitted.
Count(i, name) ==
  Cardinality({k \in DOMAIN emitted[i] : emitted[i][k][1] = name})

(***************************************************************************)
(* Pattanaik00Thread::Pattanaik00Thread(frame, xorigsize, opts)            *)
(***************************************************************************)
Construct(i) ==
  /\ object[i] = "none"
  /\ \E o \in Options :
       /\ opts' = [opts EXCEPT ![i] = o]
       \* xorigsize: the caller passes the width of its frame
       /\ originalxsize' = [originalxsize EXCEPT ![i] = OrigWidth]
  /\ LET c == PfsCopy(heap, i, CallerFrame)
     IN  /\ workingframe' = [workingframe EXCEPT ![i] = c.ptr]
         \* getXYZChannels + transformColorSpace(CS_RGB -> CS_XYZ), in place
         /\ heap' = ApplyOn(c.heap, c.ptr, "XYZ")
  /\ counter' = counter + 1
  \* ph = new ProgressHelper(0): its flag starts cleared
  /\ term' = [term EXCEPT ![i] = FALSE]
  /\ object' = [object EXCEPT ![i] = "live"]
  /\ UNCHANGED <<pc, connected, res, raised, emitted, requested, dvars>>

(***************************************************************************)
(* Pattanaik00Thread::~Pattanaik00Thread(): delete ph.  The host destroys  *)
(* a thread object only when its run() is not executing.                   *)
(***************************************************************************)
Destroy(i) ==
  /\ object[i] = "live"
  /\ pc[i] \in {"idle", "done", "fault"}
  /\ object' = [object EXCEPT ![i] = "destroyed"]
  /\ UNCHANGED <<heap, counter, pc, opts, originalxsize, workingframe, term,
                 connected, res, raised, emitted, requested, dvars>>

(***************************************************************************)
(* Pattanaik00Thread::terminateRequested(): ph->terminate(true).  Called   *)
(* by the host thread at any moment of the object's life.                  *)
(***************************************************************************)
\* One ProgressHelper shared by all the instances.
TerminateShared(t, i) == [j \in Inst |-> TRUE]

Terminate(t, i) == [t EXCEPT ![i] = TRUE]

\* The part of run() instance i is in when the request arrives.
Moment(i) ==
  CASE pc[i] = "idle" -> "before"
    [] pc[i] \in {"gamma", "resize", "connect", "setmax", "tmo", "convert",
                  "free", "poll"} -> "early"
    [] pc[i] \in {"emit_img", "emit_fin"} -> "late"
    [] OTHER -> "after"

\* A request that stops the thread where it is, as QThread::terminate()
\* would.
TerminateAndStop(i) ==
  /\ object[i] = "live"
  /\ term' = Terminate(term, i)
  /\ requested' = [requested EXCEPT
                     ![i] = IF @ = "never" THEN Moment(i) ELSE @]
  /\ pc' = [pc EXCEPT ![i] = IF @ \in {"idle", "fault"} THEN @ ELSE "done"]
  /\ UNCHANGED <<heap, counter, object, opts, originalxsize,
                 workingframe, connected, res, raised, emitted, dvars>>

TerminateRequested(i) ==
  /\ object[i] = "live"
  /\ term' = Terminate(term, i)
  /\ requested' = [requested EXCEPT
                     ![i] = IF @ = "never" THEN Moment(i) ELSE @]
  /\ UNCHANGED <<heap, counter, object, pc, opts, originalxsize,
                 workingframe, connected, res, raised, emitted, dvars>>

(***************************************************************************)
(* Pattanaik00Thread::run(), one action per statement.  run() writes none  *)
(* of the fields in fixed, and nothing of the datmo functions.             *)
(***************************************************************************)
fixed == <<counter, object, opts, originalxsize, term, requested, dvars>>

Goto(i, l) == pc' = [pc EXCEPT ![i] = l]

\* An exception leaves the stage that is executing.
Raise(i, stage, type, msg) ==
  raised' = [raised EXCEPT ![i] = [stage |-> stage, type |-> type, msg |-> msg]]

\* The exception types a helper stage may throw.
ExceptionTypes == {"pfs::Exception", "other"}

\* The operator has returned: the working frame holds its result.
TmoReturned(i) ==
  /\ workingframe[i] # NULL
  /\ \E k \in DOMAIN heap[workingframe[i]].data :
       heap[workingframe[i]].data[k] = "tmo"

\* A run() that begins by clearing the termination flag.
StartClearsFlag(i) ==
  /\ object[i] = "live"
  /\ pc[i] = "idle"
  /\ Goto(i, "gamma")
  /\ term' = [term EXCEPT ![i] = FALSE]
  /\ UNCHANGED <<counter, object, opts, originalxsize, requested, dvars,
                 heap, workingframe, connected, res, raised, emitted>>

\* QThread::start(): run() begins in its own thread.
Start(i) ==
  /\ object[i] = "live"
  /\ pc[i] = "idle"
  /\ Goto(i, "gamma")
  /\ UNCHANGED <<fixed, heap, workingframe, connected, res, raised, emitted>>

\* A pre-gamma that is applied whatever opts.pregamma is.
PreGammaAlways(i) ==
  /\ pc[i] = "gamma"
  /\ heap' = ApplyOn(heap, workingframe[i], "gamma")
  /\ Goto(i, "resize")
  /\ UNCHANGED <<fixed, workingframe, connected, res, raised, emitted>>

\* if (opts.pregamma != 1.0f) applyGammaOnFrame(workingframe, opts.pregamma)
PreGamma(i) ==
  /\ pc[i] = "gamma"
  /\ heap' = IF opts[i].pregamma # NoPreGamma
               THEN ApplyOn(heap, workingframe[i], "gamma")
               ELSE heap
  /\ Goto(i, "resize")
  /\ UNCHANGED <<fixed, workingframe, connected, res, raised, emitted>>

\* applyGammaOnFrame throws: run() has no handler around it, the exception
\* leaves run().
PreGammaThrows(i) ==
  /\ pc[i] = "gamma"
  /\ opts[i].pregamma # NoPreGamma
  /\ \E t \in ExceptionTypes : Raise(i, "pregamma", t, "")
  /\ Goto(i, "fault")
  /\ UNCHANGED <<fixed, heap, workingframe, connected, res, emitted>>

\* A resize that does not free the frame it replaces.
ResizeNoFree(i) ==
  /\ pc[i] = "resize"
  /\ IF opts[i].xsize # originalxsize[i]
       THEN LET r == ResizeFrame(heap, i, workingframe[i])
            IN  /\ heap' = r.heap
                /\ workingframe' = [workingframe EXCEPT ![i] = r.ptr]
       ELSE UNCHANGED <<heap, workingframe>>
  /\ Goto(i, "connect")
  /\ UNCHANGED <<fixed, connected, res, raised, emitted>>

\* if (opts.xsize != originalxsize) { resized = resizeFrame(...);
\*   pfsio.freeFrame(workingframe); workingframe = resized; }
Resize(i) ==
  /\ pc[i] = "resize"
  /\ IF opts[i].xsize # originalxsize[i]
       THEN LET r == ResizeFrame(heap, i, workingframe[i])
            IN  /\ heap' = FreeFrame(r.heap, workingframe[i])
                /\ workingframe' = [workingframe EXCEPT ![i] = r.ptr]
       ELSE UNCHANGED <<heap, workingframe>>
  /\ Goto(i, "connect")
  /\ UNCHANGED <<fixed, connected, res, raised, emitted>>

\* resizeFrame throws: run() has no handler around it, the exception
\* leaves run().
ResizeThrows(i) ==
  /\ pc[i] = "resize"
  /\ opts[i].xsize # originalxsize[i]
  /\ \E t \in ExceptionTypes : Raise(i, "resize", t, "")
  /\ Goto(i, "fault")
  /\ UNCHANGED <<fixed, heap, workingframe, connected, res, emitted>>

\* connect(ph, SIGNAL(valueChanged(int)), this, SIGNAL(setValue(int)))
Connect(i) ==
  /\ pc[i] = "connect"
  /\ connected' = [connected EXCEPT ![i] = TRUE]
  /\ Goto(i, "setmax")
  /\ UNCHANGED <<fixed, heap, workingframe, res, raised, emitted>>

\* A run that goes on to the operator without announcing the maximum.
SkipMaximumSteps(i) ==
  /\ pc[i] = "setmax"
  /\ Goto(i, "tmo")
  /\ UNCHANGED <<fixed, heap, workingframe, connected, res, raised, emitted>>

\* emit setMaximumSteps(100)
SetMaximumSteps(i) ==
  /\ pc[i] = "setmax"
  /\ Emit(i, <<"setMaximumSteps", MaximumSteps>>)
  /\ Goto(i, "tmo")
  /\ UNCHANGED <<fixed, heap, workingframe, connected, res, raised>>

\* pfstmo_pattanaik00(workingframe, ..., ph) posts a progress value: the
\* helper's valueChanged is forwarded as setValue once connected.
TmoProgress(i) ==
  /\ pc[i] = "tmo"
  /\ Count(i, "setValue") < MaxPosts
  /\ \E v \in ProgressValues :
       IF connected[i] THEN Emit(i, <<"setValue", v>>)
                       ELSE UNCHANGED emitted
  /\ UNCHANGED <<fixed, heap, pc, workingframe, connected, res, raised>>

\* pfstmo_pattanaik00 returns: the working frame is tone mapped in place.
TmoReturns(i) ==
  /\ pc[i] = "tmo"
  /\ heap' = ApplyOn(heap, workingframe[i], "tmo")
  /\ Goto(i, "convert")
  /\ UNCHANGED <<fixed, workingframe, connected, res, raised, emitted>>

\* A handler that reports the error and then goes on with the conversion.
CatchPfsNoReturn(i, msg) ==
  /\ heap' = FreeFrame(heap, workingframe[i])
  /\ Emit(i, <<"tmo_error", msg>>)
  /\ Goto(i, "convert")

\* catch (pfs::Exception e) { pfsio.freeFrame(workingframe);
\*   emit tmo_error(e.getMessage()); return; }
CatchPfs(i, msg) ==
  /\ heap' = FreeFrame(heap, workingframe[i])
  /\ Emit(i, <<"tmo_error", msg>>)
  /\ Goto(i, "done")

\* catch (...) { pfsio.freeFrame(workingframe);
\*   emit tmo_error("Failed to tonemap image"); return; }
CatchAll(i) ==
  /\ heap' = FreeFrame(heap, workingframe[i])
  /\ Emit(i, <<"tmo_error", UnknownFailure>>)
  /\ Goto(i, "done")

\* pfstmo_pattanaik00 throws a pfs::Exception: the first handler takes it.
TmoThrowsPfs(i) ==
  /\ pc[i] = "tmo"
  /\ \E msg \in PfsMessages :
       /\ Raise(i, "tmo", "pfs::Exception", msg)
       /\ CatchPfs(i, msg)
  /\ UNCHANGED <<fixed, workingframe, connected, res>>

\* pfstmo_pattanaik00 throws anything else: the second handler takes it.
TmoThrowsOther(i) ==
  /\ pc[i] = "tmo"
  /\ Raise(i, "tmo", "other", "")
  /\ CatchAll(i)
  /\ UNCHANGED <<fixed, workingframe, connected, res>>

\* const QImage& res = fromLDRPFStoQImage(workingframe)
Convert(i) ==
  /\ pc[i] = "convert"
  /\ res' = [res EXCEPT ![i] = Append(heap[workingframe[i]].data, "QImage")]
  /\ Goto(i, "free")
  /\ UNCHANGED <<fixed, heap, workingframe, connected, raised, emitted>>

\* fromLDRPFStoQImage throws: it is called after the try block, the
\* exception leaves run().
ConvertThrows(i) ==
  /\ pc[i] = "convert"
  /\ \E t \in ExceptionTypes : Raise(i, "convert", t, "")
  /\ Goto(i, "fault")
  /\ UNCHANGED <<fixed, heap, workingframe, connected, res, emitted>>

\* pfsio.freeFrame(workingframe)
Free(i) ==
  /\ pc[i] = "free"
  /\ heap' = FreeFrame(heap, workingframe[i])
  /\ Goto(i, "poll")
  /\ UNCHANGED <<fixed, workingframe, connected, res, raised, emitted>>

\* The result is emitted whatever the flag says.
NoPoll(i) == "emit_img"

\* if (!(ph->isTerminationRequested())) { ... }
AfterPoll(i) == IF term[i] THEN "done" ELSE "emit_img"

Poll(i) ==
  /\ pc[i] = "poll"
  /\ Goto(i, AfterPoll(i))
  /\ UNCHANGED <<fixed, heap, workingframe, connected, res, raised, emitted>>

\* emit imageComputed(res, &opts)
EmitImageComputed(i) ==
  /\ pc[i] = "emit_img"
  /\ Emit(i, <<"imageComputed", res[i], opts[i]>>)
  /\ Goto(i, "emit_fin")
  /\ UNCHANGED <<fixed, heap, workingframe, connected, res, raised>>

\* emit finished()
EmitFinished(i) ==
  /\ pc[i] = "emit_fin"
  /\ Emit(i, <<"finished">>)
  /\ Goto(i, "done")
  /\ UNCHANGED <<fixed, heap, workingframe, connected, res, raised>>

Run(i) ==
  \/ Start(i)
  \/ PreGamma(i)
  \/ PreGammaThrows(i)
  \/ Resize(i)
  \/ ResizeThrows(i)
  \/ Connect(i)
  \/ SetMaximumSteps(i)
  \/ TmoProgress(i)
  \/ TmoReturns(i)
  \/ TmoThrowsPfs(i)
  \/ TmoThrowsOther(i)
  \/ Convert(i)
  \/ ConvertThrows(i)
  \/ Free(i)
  \/ Poll(i)
  \/ EmitImageComputed(i)
  \/ EmitFinished(i)

TNext ==
  \E i \in Inst :
    \/ Construct(i)
    \/ Destroy(i)
    \/ TerminateRequested(i)
    \/ Run(i)

(***************************************************************************)
(* The display adaptive TMO (display_adaptive_tmo.h).  Logarithms are      *)
(* kept as integers: one unit is one log10 unit.                           *)
(***************************************************************************)
PFSTMO_OK == "PFSTMO_OK"
PFSTMO_ABORTED == "PFSTMO_ABORTED"
PFSTMO_ERROR == "PFSTMO_ERROR"
NotReturned == "none"

\* white_y = -1: the tone mapper does not anchor to white.
NoWhite == -1

Knots == 1..NumKnots
Segments == 1..(NumKnots - 1)
Scales == 1..NumScales

\* Luminance maps of height 1: each pixel is the knot its log luminance
\* falls on.  Width 0 is an invalid dimension.
Images == UNION {[1..n -> Knots] : n \in 0..MaxPixels}

\* Display functions, by log10 of the black level and of the maximum
\* luminance: 0.1 .. 100 cd/m2 and 1 .. 10 cd/m2.
Displays == {[black |-> -1, max |-> 2], [black |-> 0, max |-> 1]}
EnhFactors == {1, 2}
WhiteYs == {NoWhite, 1, 10}

Log10(v) == CASE v = 1 -> 0 [] v = 10 -> 1 [] v = 100 -> 2

\* x_i of knot i: log10 of the input luminance factor.
x_scale == [i \in Knots |-> i - 2]

Abs(n) == IF n < 0 THEN -n ELSE n

(***************************************************************************)
(* datmoToneCurve                                                          *)
(***************************************************************************)
\* datmoToneCurve(): nothing stored yet.
EmptyToneCurve == [size |-> 0, x_i |-> <<>>, y_i |-> <<>>, own_y_i |-> FALSE]

\* tc->init(n_size, n_x_i) followed by the writes of y_i.
ToneCurveInit(n_size, n_x_i, n_y_i) ==
  [size |-> n_size, x_i |-> n_x_i, y_i |-> n_y_i, own_y_i |-> TRUE]

(***************************************************************************)
(* datmoConditionalDensity: for every scale, the contrast found at each    *)
(* luminance knot.                                                         *)
(***************************************************************************)
ZeroHist == [s \in Scales |-> [b \in Knots |-> 0]]
NullDensity == [null |-> TRUE, scales |-> 0, hist |-> ZeroHist]
NewDensity == [null |-> FALSE, scales |-> 0, hist |-> ZeroHist]

\* Local contrast of pixel k at scale s: the difference to the pixel s
\* further on (to itself at the border).
Contrast(img, k, s) ==
  LET nb == IF k + s <= Len(img) THEN k + s ELSE k
  IN  Abs(img[k] - img[nb])

RECURSIVE HistSum(_, _, _, _)
HistSum(img, s, b, k) ==
  IF k = 0 THEN 0
  ELSE HistSum(img, s, b, k - 1)
         + (IF img[k] = b THEN Contrast(img, k, s) ELSE 0)

\* The histogram of one scale.
ScaleHist(img, s) == [b \in Knots |-> HistSum(img, s, b, Len(img))]

AddScale(C, img, s) ==
  [C EXCEPT !.scales = s, !.hist[s] = ScaleHist(img, s)]

\* The density of the whole image.
FullDensity(img) ==
  [null |-> FALSE, scales |-> NumScales,
   hist |-> [s \in Scales |-> ScaleHist(img, s)]]

(***************************************************************************)
(* datmo_compute_conditional_density(width, height, L, ph)                 *)
(***************************************************************************)
\* What is handed back on cancellation when the object built so far is
\* returned instead of being dropped.
PartialResult(C) == C

\* What is handed back on cancellation: NULL.
AbortResult(C) == NullDensity

DensityCall ==
  /\ cd_pc = "idle"
  /\ IF Len(L) = 0
       THEN /\ cond_dens' = NullDensity
            /\ cd_pc' = "returned"
            /\ UNCHANGED cd_work
       ELSE /\ cd_work' = NewDensity
            /\ cd_pc' = "running"
            /\ UNCHANGED cond_dens
  /\ UNCHANGED <<L, df, enh_factor, white_y, canceled, tc_pc, slopes, tc,
                 tc_ret, svars, fvars, tvars>>

\* One scale is added to the histogram, then the progress callback is
\* polled.
DensityScale ==
  /\ cd_pc = "running"
  /\ cd_work.scales < NumScales
  /\ LET C == AddScale(cd_work, L, cd_work.scales + 1)
     IN  IF canceled
           THEN /\ cond_dens' = AbortResult(C)
                /\ cd_work' = NullDensity
                /\ cd_pc' = "returned"
           ELSE /\ cd_work' = C
                /\ UNCHANGED <<cond_dens, cd_pc>>
  /\ UNCHANGED <<L, df, enh_factor, white_y, canceled, tc_pc, slopes, tc,
                 tc_ret, svars, fvars, tvars>>

DensityReturn ==
  /\ cd_pc = "running"
  /\ cd_work.scales = NumScales
  /\ cond_dens' = cd_work
  /\ cd_work' = NullDensity
  /\ cd_pc' = "returned"
  /\ UNCHANGED <<L, df, enh_factor, white_y, canceled, tc_pc, slopes, tc,
                 tc_ret, svars, fvars, tvars>>

\* The host stops the computation through the progress object.
Cancel ==
  /\ ~canceled
  /\ canceled' = TRUE
  /\ UNCHANGED <<L, df, enh_factor, white_y, cd_pc, cd_work, cond_dens,
                 tc_pc, slopes, tc, tc_ret, svars, fvars, tvars>>

(***************************************************************************)
(* datmo_compute_tone_curve(tc, cond_dens, df, ds, enh_factor, white_y,    *)
(* ph)                                                                     *)
(***************************************************************************)
RECURSIVE Partial(_, _)
Partial(d, n) == IF n = 0 THEN 0 ELSE Partial(d, n - 1) + d[n]

Total(d) == Partial(d, NumKnots - 1)

\* Contrast the image holds on segment k, between knots k and k + 1.
Weight(C, k) ==
  LET RECURSIVE W(_)
      W(s) == IF s = 0 THEN 0
              ELSE W(s - 1) + C.hist[s][k] + C.hist[s][k + 1]
  IN  W(NumScales)

\* The knot white_y is anchored to; 0 when there is no anchor.
AnchorKnot(w) ==
  IF w = NoWhite THEN 0
  ELSE CHOOSE i \in Knots : x_scale[i] = Log10(w)

\* The slopes that keep (or enhance) the contrast of the image: enh_factor
\* where the image has contrast, none above the white anchor.
TargetSlopes(C, e, w) ==
  [k \in Segments |->
     IF Weight(C, k) > 0 /\ (AnchorKnot(w) = 0 \/ k < AnchorKnot(w))
       THEN e ELSE 0]

\* The dynamic range of the display.
Budget(d_f) == d_f.max - d_f.black

\* A solver that takes any slopes as the solution.
AlwaysConverged(d, d_f) == TRUE

\* The slopes fit the dynamic range of the display.
Converged(d, d_f) == Total(d) <= Budget(d_f)

\* One iteration: the segment with the least contrast gives up one unit of
\* slope.
Reduce(d, C) ==
  LET k == CHOOSE k \in Segments :
             /\ d[k] > 0
             /\ \A j \in Segments :
                  d[j] > 0 =>
                    \/ Weight(C, k) < Weight(C, j)
                    \/ (Weight(C, k) = Weight(C, j) /\ k <= j)
  IN  [d EXCEPT ![k] = @ - 1]

\* y_i of the curve with slopes d: anchored at the display's maximum when
\* there is a white anchor, starting at its black level otherwise.
CurveY(d, d_f, w) ==
  LET y1 == IF AnchorKnot(w) = 0 THEN d_f.black
            ELSE d_f.max - Partial(d, AnchorKnot(w) - 1)
  IN  [i \in Knots |-> y1 + Partial(d, i - 1)]

\* A solver that stores the curve of its current slopes when it is stopped.
StoreOnAbort(t, d, d_f, w) ==
  ToneCurveInit(NumKnots, x_scale, CurveY(d, d_f, w))

\* The caller's curve when the solver is stopped: as it was.
OnAbort(t, d, d_f, w) == t

CurveCall ==
  /\ cd_pc = "returned"
  /\ tc_pc = "idle"
  /\ IF cond_dens.null
       THEN /\ tc_ret' = PFSTMO_ERROR
            /\ tc_pc' = "returned"
            /\ UNCHANGED slopes
       ELSE /\ slopes' = TargetSlopes(cond_dens, enh_factor, white_y)
            /\ tc_pc' = "solving"
            /\ UNCHANGED tc_ret
  /\ UNCHANGED <<L, df, enh_factor, white_y, canceled, cd_pc, cd_work,
                 cond_dens, tc, svars, fvars, tvars>>

\* A solver that uses the density as its working storage: the contrast it
\* has accounted for is cleared from the histogram.
DensityConsumed(C, d) == [C EXCEPT !.hist = ZeroHist]

\* *cond_dens after one solver iteration: the solver only reads it.
DensityLeft(C, d) == C

\* One solver iteration, then the progress callback is polled.
CurveIterate ==
  /\ tc_pc = "solving"
  /\ ~Converged(slopes, df)
  /\ LET d == Reduce(slopes, cond_dens)
     IN  /\ slopes' = d
         /\ cond_dens' = DensityLeft(cond_dens, d)
         /\ IF canceled
              THEN /\ tc' = OnAbort(tc, d, df, white_y)
                   /\ tc_ret' = PFSTMO_ABORTED
                   /\ tc_pc' = "returned"
              ELSE UNCHANGED <<tc, tc_ret, tc_pc>>
  /\ UNCHANGED <<L, df, enh_factor, white_y, canceled, cd_pc, cd_work,
                 svars, fvars, tvars>>

CurveReturn ==
  /\ tc_pc = "solving"
  /\ Converged(slopes, df)
  /\ tc' = ToneCurveInit(NumKnots, x_scale, CurveY(slopes, df, white_y))
  /\ tc_ret' = PFSTMO_OK
  /\ tc_pc' = "returned"
  /\ UNCHANGED <<L, df, enh_factor, white_y, canceled, cd_pc, cd_work,
                 cond_dens, slopes, svars, fvars, tvars>>

(***************************************************************************)
(* A second caller of datmo_compute_tone_curve on the same density: the    *)
(* interactive tuning of the header's documentation (lines 69-71).  It     *)
(* calls the function up to MaxCalls times, each time with parameters of   *)
(* its own and a datmoToneCurve of its own, while the first caller's call  *)
(* may be in progress.                                                     *)
(***************************************************************************)
TuneCall ==
  /\ cd_pc = "returned"
  /\ t_pc \in {"idle", "returned"}
  /\ t_calls < MaxCalls
  /\ t_calls' = t_calls + 1
  /\ t_tc' = EmptyToneCurve
  /\ \E e \in EnhFactors, w \in WhiteYs :
       /\ t_enh' = e
       /\ t_white' = w
       /\ IF cond_dens.null
            THEN /\ t_ret' = PFSTMO_ERROR
                 /\ t_pc' = "returned"
                 /\ UNCHANGED t_slopes
            ELSE /\ t_slopes' = TargetSlopes(cond_dens, e, w)
                 /\ t_pc' = "solving"
                 /\ t_ret' = NotReturned
  /\ UNCHANGED <<L, df, enh_factor, white_y, canceled, cd_pc, cd_work,
                 cond_dens, tc_pc, slopes, tc, tc_ret, fvars, tvars>>

TuneIterate ==
  /\ t_pc = "solving"
  /\ ~Converged(t_slopes, df)
  /\ LET d == Reduce(t_slopes, cond_dens)
     IN  /\ t_slopes' = d
         /\ cond_dens' = DensityLeft(cond_dens, d)
         /\ IF canceled
              THEN /\ t_tc' = OnAbort(t_tc, d, df, t_white)
                   /\ t_ret' = PFSTMO_ABORTED
                   /\ t_pc' = "returned"
              ELSE UNCHANGED <<t_tc, t_ret, t_pc>>
  /\ UNCHANGED <<L, df, enh_factor, white_y, canceled, cd_pc, cd_work,
                 tc_pc, slopes, tc, tc_ret, t_calls, t_enh, t_white, fvars, tvars>>

TuneReturn ==
  /\ t_pc = "solving"
  /\ Converged(t_slopes, df)
  /\ t_tc' = ToneCurveInit(NumKnots, x_scale, CurveY(t_slopes, df, t_white))
  /\ t_ret' = PFSTMO_OK
  /\ t_pc' = "returned"
  /\ UNCHANGED <<L, df, enh_factor, white_y, canceled, cd_pc, cd_work,
                 cond_dens, tc_pc, slopes, tc, tc_ret, t_calls, t_enh,
                 t_white, t_slopes, fvars, tvars>>

SNext ==
  \/ TuneCall
  \/ TuneIterate
  \/ TuneReturn

\* The tuning caller has made no call.
SInit ==
  /\ t_calls = 0
  /\ t_enh = 1
  /\ t_white = NoWhite
  /\ t_pc = "idle"
  /\ t_slopes = [k \in Segments |-> 0]
  /\ t_tc = EmptyToneCurve
  /\ t_ret = NotReturned

(***************************************************************************)
(* The temporal filter (DATMO_TF_TAPSIZE, spec 4.5): a window of the most  *)
(* recent tone curves and a weighted average over it.  The curves of a     *)
(* sequence share the knot grid x_scale, a curve is its y_i.               *)
(***************************************************************************)
\* Number of samples required for the temporal filter.
DATMO_TF_TAPSIZE == 26

\* The tone curves of the frames: a flat one and a rising one.
FilterCurves == {[i \in Knots |-> 0], [i \in Knots |-> i - 1]}

\* The filter coefficient of the curve that is age frames old.
Tap(age) == DATMO_TF_TAPSIZE - age

Min(a, b) == IF a < b THEN a ELSE b

\* A window that grows with every frame.
PushUnbounded(win, c) == <<c>> \o win

\* The new curve enters the window; the oldest one leaves a full window.
Push(win, c) ==
  SubSeq(<<c>> \o win, 1, Min(Len(win) + 1, DATMO_TF_TAPSIZE))

\* The sum of the coefficients of the curves the window holds.
RECURSIVE TapSum(_, _)
TapSum(win, a) ==
  IF a = 0 THEN 0 ELSE TapSum(win, a - 1) + Tap(a - 1)

\* The weighted sum of knot i over the curves the window holds.
RECURSIVE KnotSum(_, _, _)
KnotSum(win, i, a) ==
  IF a = 0 THEN 0 ELSE KnotSum(win, i, a - 1) + Tap(a - 1) * win[a][i]

\* The average is kept as a fraction: num[i] / den is y_i.
NoOutput == [num |-> [i \in Knots |-> 0], den |-> 0]

Average(win) ==
  [num |-> [i \in Knots |-> KnotSum(win, i, Len(win))],
   den |-> TapSum(win, Len(win))]

\* smooth(newCurve)
Smooth ==
  /\ tf_n < MaxFrames
  /\ \E c \in FilterCurves :
       LET cut == tf_n > 0 /\ c # tf_window[1]
       IN  /\ cut => tf_cuts < MaxCuts
           /\ tf_cuts' = IF cut THEN tf_cuts + 1 ELSE tf_cuts
           /\ tf_window' = Push(tf_window, c)
           /\ tf_out' = Average(Push(tf_window, c))
           /\ tf_hist' = Append(tf_hist, c)
  /\ tf_n' = tf_n + 1
  /\ UNCHANGED <<L, df, enh_factor, white_y, canceled, cd_pc, cd_work,
                 cond_dens, tc_pc, slopes, tc, tc_ret, svars, tvars>>

FNext == Smooth

\* No frame has passed through the filter.
FInit ==
  /\ tf_window = <<>>
  /\ tf_n = 0
  /\ tf_out = NoOutput
  /\ tf_hist = <<>>
  /\ tf_cuts = 0

DNext ==
  \/ DensityCall
  \/ DensityScale
  \/ DensityReturn
  \/ Cancel
  \/ CurveCall
  \/ CurveIterate
  \/ CurveReturn

\* No datmo call is made.
DIdle ==
  /\ L = <<>>
  /\ df = [black |-> -1, max |-> 2]
  /\ enh_factor = 1
  /\ white_y = NoWhite
  /\ canceled = FALSE
  /\ cd_pc = "idle"
  /\ cd_work = NullDensity
  /\ cond_dens = NullDensity
  /\ tc_pc = "idle"
  /\ slopes = [k \in Segments |-> 0]
  /\ tc = EmptyToneCurve
  /\ tc_ret = NotReturned
  /\ SInit
  /\ FInit

\* The arguments of the datmo calls.
DInit ==
  /\ L \in Images
  /\ df \in Displays
  /\ enh_factor \in EnhFactors
  /\ white_y \in WhiteYs
  /\ canceled = FALSE
  /\ cd_pc = "idle"
  /\ cd_work = NullDensity
  /\ cond_dens = NullDensity
  /\ tc_pc = "idle"
  /\ slopes = [k \in Segments |-> 0]
  /\ tc = EmptyToneCurve
  /\ tc_ret = NotReturned
  /\ SInit
  /\ FInit

(***************************************************************************)
(* The specifications: the thread wrapper, and the datmo functions.        *)
(***************************************************************************)
Init == TInit /\ DIdle

Next == TNext

Spec == Init /\ [][Next]_vars

InitDatmo == TInit /\ DInit

NextDatmo == DNext

SpecDatmo == InitDatmo /\ [][NextDatmo]_vars

\* The datmo functions with two callers of datmo_compute_tone_curve.
NextShared == DNext \/ SNext

SpecShared == InitDatmo /\ [][NextShared]_vars

\* The temporal filter over a sequence of frames.
NextFilter == FNext

SpecFilter == Init /\ [][NextFilter]_vars

(***************************************************************************)
(* What the host observes of one run.                                      *)
(***************************************************************************)
IsOutcome(sig) == sig[1] \in {"imageComputed", "finished", "tmo_error"}

\* The result and error signals of instance i, in the order of emission
\* (progress signals left out).
OutcomeSignals(i) == SelectSeq(emitted[i], IsOutcome)

OutcomeNames(i) ==
  [k \in 1..Len(OutcomeSignals(i)) |-> OutcomeSignals(i)[k][1]]

NoResult(i) == Count(i, "imageComputed") = 0 /\ Count(i, "finished") = 0

RunEnded(i) == pc[i] \in {"done", "fault"}

(***************************************************************************)
(* C1                                                                      *)
(***************************************************************************)
\* C1, as stated: if terminateRequested() is called at any moment while
\* run() is in progress, that run emits neither imageComputed nor finished.
C1_RequestAtAnyMoment ==
  \A i \in Inst :
    requested[i] \in {"early", "late"} => NoResult(i)

\* C1, amended: if terminateRequested() is called while run() is in
\* progress and before run() reads the flag (line 92), that run emits
\* neither imageComputed nor finished.
C1_RequestBeforePoll ==
  \A i \in Inst :
    requested[i] = "early" => NoResult(i)

\* A run whose operator returned, whose image was converted, and whose
\* result was held back because of a request made during the run.
C1_Witness ==
  \E i \in Inst :
    /\ requested[i] = "early"
    /\ pc[i] = "done"
    /\ TmoReturned(i)
    /\ res[i] # <<>>

(***************************************************************************)
(* C2                                                                      *)
(***************************************************************************)
\* C2: a run in which the operator returned without throwing and
\* termination was not requested emits exactly one imageComputed(res, opts)
\* followed by exactly one finished, and no tmo_error.
C2_SuccessEmitsResult ==
  \A i \in Inst :
    (RunEnded(i) /\ TmoReturned(i) /\ requested[i] \in {"never", "after"})
      => OutcomeSignals(i) =
           << <<"imageComputed", res[i], opts[i]>>, <<"finished">> >>

(***************************************************************************)
(* C3                                                                      *)
(***************************************************************************)
\* C3: when the operator throws, exactly one tmo_error is emitted, with the
\* exception's message for a pfs::Exception and "Failed to tonemap image"
\* otherwise, and neither imageComputed nor finished; no run emits both
\* tmo_error and imageComputed.
C3_OperatorThrows ==
  \A i \in Inst :
    /\ raised[i].stage = "tmo" =>
         OutcomeSignals(i) =
           << <<"tmo_error",
                IF raised[i].type = "pfs::Exception"
                  THEN raised[i].msg ELSE UnknownFailure>> >>
    /\ ~(Count(i, "tmo_error") > 0 /\ Count(i, "imageComputed") > 0)

\* Both handlers have run: one run ended by a pfs::Exception, another by an
\* exception of another type.
C3_Witness ==
  \E i, j \in Inst :
    /\ pc[i] = "done" /\ raised[i].stage = "tmo"
    /\ raised[i].type = "pfs::Exception"
    /\ pc[j] = "done" /\ raised[j].stage = "tmo"
    /\ raised[j].type = "other"

(***************************************************************************)
(* C4                                                                      *)
(***************************************************************************)
\* C4: an exception raised by any stage of run() (pre-gamma, resize, the
\* operator, the conversion to the output image) is turned into a single
\* tmo_error and never leaves run().
C4_EveryFailureReported ==
  \A i \in Inst :
    raised[i] # NoException =>
      /\ pc[i] # "fault"
      /\ Count(i, "tmo_error") = 1

(***************************************************************************)
(* C5                                                                      *)
(***************************************************************************)
\* C5: whatever the wrapper's operations do, in any order, the frame the
\* caller passed in stays allocated and keeps its contents.
C5_CallerFrameUntouched ==
  heap[CallerFrame] = [state |-> "live", data |-> <<"RGB">>, frees |-> 0]

\* An object that went through construction, a run with pre-gamma, resize,
\* tone mapping and both frees, a termination request, and destruction.
C5_Witness ==
  \E i \in Inst :
    /\ object[i] = "destroyed"
    /\ pc[i] = "done"
    /\ requested[i] # "never"
    /\ workingframe[i] = ResizedAddr(i)
    /\ heap[CopyAddr(i)].state = "freed"
    /\ heap[ResizedAddr(i)].state = "freed"
    /\ heap[ResizedAddr(i)].data = <<"RGB", "XYZ", "gamma", "resize", "tmo">>

(***************************************************************************)
(* C6                                                                      *)
(***************************************************************************)
\* C6: a run during which cancellation was requested emits nothing, neither
\* imageComputed, finished nor tmo_error, also when the operator throws.
\* Stated for the requests that arrive before run() reads the flag.
C6_CancelledRunIsSilent ==
  \A i \in Inst :
    requested[i] = "early" =>
      /\ NoResult(i)
      /\ Count(i, "tmo_error") = 0

(***************************************************************************)
(* C7                                                                      *)
(***************************************************************************)
\* C7: a step that sets the termination flag of one instance leaves the
\* flag, the position and the signals of every other instance as they are;
\* and a run that ends normally without a request to its own instance (or
\* with one that came after its poll) has emitted its result.
C7_OnlyOwnFlag ==
  /\ [][\A i \in Inst :
          (~term[i] /\ term'[i]) =>
            \A j \in Inst \ {i} :
              /\ term'[j] = term[j]
              /\ pc'[j] = pc[j]
              /\ emitted'[j] = emitted[j]]_vars
  /\ [](\A j \in Inst :
          (pc[j] = "done" /\ raised[j] = NoException
             /\ requested[j] \in {"never", "late", "after"})
            => OutcomeNames(j) = <<"imageComputed", "finished">>)

\* Two runs in progress at once: one was asked to terminate during its run
\* and is still running, the other was not and has emitted its result.
C7_Witness ==
  \E i, j \in Inst :
    /\ i # j
    /\ requested[i] = "early" /\ term[i] /\ pc[i] \in {"tmo", "convert"}
    /\ requested[j] = "never" /\ ~term[j] /\ pc[j] = "done"
    /\ OutcomeNames(j) = <<"imageComputed", "finished">>
(***************************************************************************)
(* C8                                                                      *)
(***************************************************************************)
\* C8: a tone curve stored by a call that returned PFSTMO_OK has strictly
\* increasing x_i, non-decreasing y_i, and every y_i between log10 of the
\* display's black level and log10 of its maximum luminance.
C8_MonotonicAndBounded ==
  tc_ret = PFSTMO_OK =>
    /\ tc.size = NumKnots
    /\ \A i \in 1..(tc.size - 1) :
         /\ tc.x_i[i] < tc.x_i[i + 1]
         /\ tc.y_i[i] <= tc.y_i[i + 1]
    /\ \A i \in 1..tc.size :
         /\ df.black <= tc.y_i[i]
         /\ tc.y_i[i] <= df.max

\* A curve that had to be compressed to fit the display, is anchored to
\* white, and is not flat.
C8_Witness ==
  /\ tc_ret = PFSTMO_OK
  /\ white_y # NoWhite
  /\ Total(TargetSlopes(cond_dens, enh_factor, white_y)) > Budget(df)
  /\ tc.y_i[1] < tc.y_i[NumKnots]

(***************************************************************************)
(* C9                                                                      *)
(***************************************************************************)
\* C9: the pointer the caller holds is NULL or the density of the whole
\* image; a poll (there is one after each scale) that sees the cancellation
\* ends the call with NULL; and no tone curve is computed from anything but
\* a complete density.
C9_NoPartialDensity ==
  /\ [](/\ cond_dens.null \/ cond_dens = FullDensity(L)
        /\ (~cond_dens.null) => (cd_pc = "returned" /\ Len(L) > 0)
        /\ tc_ret = PFSTMO_OK => cond_dens = FullDensity(L))
  /\ [][(/\ cd_pc = "running" /\ cd_work.scales < NumScales
          /\ canceled /\ cd_work' # cd_work)
          => (cd_pc' = "returned" /\ cond_dens'.null)]_vars

\* A density computation stopped after its first scale, and the tone curve
\* call that followed it and was refused.
C9_Witness ==
  /\ Len(L) > 0
  /\ cd_pc = "returned"
  /\ canceled
  /\ cond_dens.null
  /\ tc_ret = PFSTMO_ERROR

(***************************************************************************)
(* C10                                                                     *)
(***************************************************************************)
\* C10: a call that has returned has returned one of PFSTMO_OK,
\* PFSTMO_ABORTED and PFSTMO_ERROR, and unless that is PFSTMO_OK the
\* caller's tone curve is as it was before the call.
C10_NoPartialCurve ==
  /\ tc_pc = "returned" <=> tc_ret \in {PFSTMO_OK, PFSTMO_ABORTED, PFSTMO_ERROR}
  /\ tc_pc # "returned" <=> tc_ret = NotReturned
  /\ tc_ret # PFSTMO_OK => tc = EmptyToneCurve

\* A solver stopped between two iterations, with slopes that do not fit
\* the display yet.
C10_Witness ==
  /\ tc_ret = PFSTMO_ABORTED
  /\ slopes # TargetSlopes(cond_dens, enh_factor, white_y)
  /\ ~Converged(slopes, df)

C12_Recent(a) == tf_hist[Len(tf_hist) - a + 1]

\* The weighted sum of knot i over the m most recent curves passed.
RECURSIVE C12_Sum(_, _)
C12_Sum(i, m) ==
  IF m = 0 THEN 0
  ELSE C12_Sum(i, m - 1) + (26 - (m - 1)) * C12_Recent(m)[i]

\* C12: after n calls of smooth() the window holds exactly the min(n, 26)
\* most recent tone curves, never more than 26; the output is the weighted
\* average over those curves only, the weights renormalised over them (the
\* denominator is the sum of the min(n, 26) coefficients in use); and from
\* the 26th frame on the window is full.
C12_WindowAndWarmUp ==
  LET n == Len(tf_hist)
      m == IF n < 26 THEN n ELSE 26
  IN  /\ tf_n = n
      /\ Len(tf_window) = m
      /\ Len(tf_window) <= 26
      /\ \A a \in 1..m : tf_window[a] = C12_Recent(a)
      /\ n >= 26 => Len(tf_window) = 26
      /\ n > 0 =>
           /\ tf_out.den = (m * (2 * 26 - m + 1)) \div 2
           /\ \A i \in Knots : tf_out.num[i] = C12_Sum(i, m)

\* A sequence longer than the window whose tone curve changed twice: the
\* oldest curve has left the window and the window holds both curves.
C12_Witness ==
  /\ tf_n = MaxFrames
  /\ tf_cuts = MaxCuts
  /\ tf_hist[1] # tf_hist[tf_n - DATMO_TF_TAPSIZE + 1]
  /\ \E a \in 1..Len(tf_window) : tf_window[a] # tf_window[1]

(***************************************************************************)
(* C13                                                                     *)
(***************************************************************************)
\* The frames instance i allocates: pfscopy's and resizeFrame's.
C13_Frames(i) == {CopyAddr(i), ResizedAddr(i)}

\* C13: when run() has returned (result emitted, cancelled, or one of the
\* two handlers taken) the frame workingframe points to has been freed
\* exactly once and every frame the instance allocated has been freed, none
\* twice; while a stage that uses the working frame is still to run the
\* frame is allocated and not freed, and a freed frame is never touched
\* again; after a resize the copy is freed once and workingframe is the
\* resized frame.
C13_FreedExactlyOnce ==
  /\ [](\A i \in Inst :
          /\ pc[i] = "done" =>
               /\ heap[workingframe[i]].state = "freed"
               /\ heap[workingframe[i]].frees = 1
               /\ \A f \in C13_Frames(i) :
                    heap[f].state \in {"unalloc", "freed"}
          /\ \A f \in C13_Frames(i) : heap[f].frees <= 1
          /\ pc[i] \in {"gamma", "resize", "connect", "setmax", "tmo",
                        "convert", "free"} =>
               /\ heap[workingframe[i]].state = "live"
               /\ heap[workingframe[i]].frees = 0
          /\ (/\ opts[i].xsize # originalxsize[i]
              /\ pc[i] \in {"connect", "setmax", "tmo", "convert", "free",
                            "poll", "emit_img", "emit_fin", "done"}) =>
               /\ workingframe[i] = ResizedAddr(i)
               /\ heap[CopyAddr(i)].state = "freed"
               /\ heap[CopyAddr(i)].frees = 1
          /\ (object[i] # "none" /\ opts[i].xsize = originalxsize[i]) =>
               /\ workingframe[i] = CopyAddr(i)
               /\ heap[ResizedAddr(i)].state = "unalloc")
  /\ [][\A f \in FrameIds :
          heap[f].state = "freed" => heap'[f] = heap[f]]_vars

\* One run that resized its frame and was cancelled, and another that did
\* not resize and ended in a handler: both have returned.
C13_Witness ==
  \E i, j \in Inst :
    /\ i # j
    /\ pc[i] = "done" /\ raised[i] = NoException
    /\ requested[i] = "early" /\ workingframe[i] = ResizedAddr(i)
    /\ pc[j] = "done" /\ raised[j].stage = "tmo"
    /\ workingframe[j] = CopyAddr(j)

(***************************************************************************)
(* C14                                                                     *)
(***************************************************************************)
\* C14: a step that sets the termination flag of an instance changes
\* nothing else: not the position of any run(), no frame, no signal, no
\* other field (the history of the requests aside).  A run whose flag is
\* set goes through its stages all the same: when it comes to the poll the
\* operator has returned, the image has been converted and the frame
\* freed; and a run that returned without result and without exception had
\* its flag set before the poll.
C14_Advisory ==
  /\ [][\A i \in Inst :
          term'[i] # term[i] =>
            /\ term' = [term EXCEPT ![i] = TRUE]
            /\ UNCHANGED <<heap, counter, object, pc, opts, originalxsize,
                           workingframe, connected, res, raised, emitted>>]_vars
  /\ [](\A i \in Inst :
          /\ (\/ pc[i] \in {"poll", "emit_img", "emit_fin"}
              \/ (pc[i] = "done" /\ raised[i] = NoException)) =>
               /\ TmoReturned(i)
               /\ res[i] = Append(heap[workingframe[i]].data, "QImage")
               /\ heap[workingframe[i]].state = "freed"
               /\ Count(i, "setMaximumSteps") = 1
          /\ (pc[i] = "done" /\ raised[i] = NoException /\ NoResult(i)) =>
               requested[i] \in {"before", "early"})

\* A run whose flag was set before it started and that has nevertheless
\* forwarded progress, tone mapped and converted its frame, and is now at
\* the poll.
C14_Witness ==
  \E i \in Inst :
    /\ requested[i] = "before" /\ term[i]
    /\ pc[i] = "poll"
    /\ Count(i, "setValue") = MaxPosts
    /\ TmoReturned(i)
    /\ res[i] # <<>>

(***************************************************************************)
(* C15                                                                     *)
(***************************************************************************)
\* run() of instance i has come to the call of the operator.
C15_ReachedOperator(i) ==
  \/ pc[i] \in {"tmo", "convert", "free", "poll", "emit_img", "emit_fin",
                "done"}
  \/ raised[i].stage \in {"tmo", "convert"}

\* C15: in a run that reaches the operator setMaximumSteps(100) is emitted
\* exactly once, as the first signal of the run, with valueChanged already
\* connected to setValue and the operator not yet started: every setValue,
\* imageComputed, finished and tmo_error of the run comes after it.
C15_MaximumStepsFirst ==
  /\ [](\A i \in Inst :
          /\ C15_ReachedOperator(i) =>
               /\ Count(i, "setMaximumSteps") = 1
               /\ connected[i]
          /\ emitted[i] # <<>> =>
               /\ emitted[i][1] = <<"setMaximumSteps", 100>>
               /\ \A k \in 2..Len(emitted[i]) :
                    emitted[i][k][1] # "setMaximumSteps")
  /\ [][\A i \in Inst :
          Count(i, "setMaximumSteps")' # Count(i, "setMaximumSteps") =>
            /\ connected[i]
            /\ ~C15_ReachedOperator(i)
            /\ pc'[i] = "tmo"]_vars

\* One run that forwarded a progress value and emitted its result, and one
\* that forwarded a progress value and reported an error.
C15_Witness ==
  \E i, j \in Inst :
    /\ Count(i, "setValue") = 1
    /\ OutcomeNames(i) = <<"imageComputed", "finished">>
    /\ Count(j, "setValue") = 1
    /\ OutcomeNames(j) = <<"tmo_error">>

(***************************************************************************)
(* C16                                                                     *)
(***************************************************************************)
\* What the working frame holds when the operator is called: the caller's
\* RGB data converted to XYZ by the constructor, then the pre-gamma if
\* opts.pregamma is not 1.0, then the resize if opts.xsize is not
\* originalxsize.
C16_OperatorInput(i) ==
  <<"RGB", "XYZ">>
    \o (IF opts[i].pregamma # 10 THEN <<"gamma">> ELSE <<>>)
    \o (IF opts[i].xsize # originalxsize[i] THEN <<"resize">> ELSE <<>>)

\* C16: the stages of a run come in the order pre-gamma, resize, operator,
\* conversion, emission, the pre-gamma present exactly when opts.pregamma
\* is not 1.0 and the resize exactly when opts.xsize is not originalxsize;
\* with neither, the operator gets the frame as the constructor left it.
C16_StagesInOrder ==
  \A i \in Inst :
    /\ pc[i] \in {"connect", "setmax", "tmo"} =>
         /\ heap[workingframe[i]].data = C16_OperatorInput(i)
         /\ (opts[i].pregamma = 10 /\ opts[i].xsize = originalxsize[i]) =>
              /\ workingframe[i] = CopyAddr(i)
              /\ heap[workingframe[i]].data = <<"RGB", "XYZ">>
    /\ pc[i] \in {"convert", "free", "poll", "emit_img", "emit_fin"} =>
         heap[workingframe[i]].data = C16_OperatorInput(i) \o <<"tmo">>
    /\ res[i] # <<>> =>
         res[i] = C16_OperatorInput(i) \o <<"tmo", "QImage">>
    /\ OutcomeSignals(i) \in
         { <<>>,
           << <<"imageComputed", res[i], opts[i]>> >>,
           << <<"imageComputed", res[i], opts[i]>>, <<"finished">> >> }
         \/ (raised[i].stage = "tmo" /\ OutcomeNames(i) = <<"tmo_error">>)
    /\ Count(i, "imageComputed") > 0 => res[i] # <<>>

\* Two runs that emitted their results: one with pre-gamma 2.2 and a
\* resize, one with neither.
C16_Witness ==
  \E i, j \in Inst :
    /\ opts[i].pregamma # NoPreGamma /\ opts[i].xsize # originalxsize[i]
    /\ OutcomeNames(i) = <<"imageComputed", "finished">>
    /\ opts[j].pregamma = NoPreGamma /\ opts[j].xsize = originalxsize[j]
    /\ OutcomeNames(j) = <<"imageComputed", "finished">>

(***************************************************************************)
(* C17                                                                     *)
(***************************************************************************)
\* C17: no step clears a termination flag that is set; so a request made
\* before run() starts, or during one of its stages before the poll, keeps
\* imageComputed and finished from being emitted; and such a run, unless an
\* exception ends it, has tone mapped and converted its frame by the time
\* it returns.
C17_FlagIsSticky ==
  /\ [][\A i \in Inst : term[i] => term'[i]]_vars
  /\ [](\A i \in Inst :
          /\ requested[i] # "never" => term[i]
          /\ requested[i] \in {"before", "early"} =>
               /\ NoResult(i)
               /\ (pc[i] = "done" /\ raised[i] = NoException) =>
                    /\ TmoReturned(i)
                    /\ res[i] # <<>>)

\* A run whose termination was requested before it started: it applied
\* the pre-gamma, resized, tone mapped and converted its frame, and
\* returned without emitting its result.
C17_Witness ==
  \E i \in Inst :
    /\ requested[i] = "before"
    /\ pc[i] = "done" /\ raised[i] = NoException
    /\ res[i] = <<"RGB", "XYZ", "gamma", "resize", "tmo", "QImage">>
    /\ emitted[i] = << <<"setMaximumSteps", MaximumSteps>> >>

(***************************************************************************)
(* C18                                                                     *)
(***************************************************************************)
\* C18: a run that has ended has ended in exactly one of three outcomes:
\* the result emitted (imageComputed, then finished), an error emitted
\* (one tmo_error), or nothing emitted after a cancellation that was
\* requested before the poll.
C18_ThreeOutcomes ==
  \A i \in Inst :
    RunEnded(i) =>
      \/ OutcomeNames(i) = <<"imageComputed", "finished">>
      \/ OutcomeNames(i) = <<"tmo_error">>
      \/ (OutcomeNames(i) = <<>> /\ requested[i] \in {"before", "early"})

(***************************************************************************)
(* C19                                                                     *)
(***************************************************************************)
\* C19: Pattanaik00Thread::counter is the number of instances constructed
\* and not yet destroyed.
C19_CounterIsLiveCount ==
  counter = Cardinality({i \in Inst : object[i] = "live"})
====
